---- MODULE Spec2Model ----
(***************************************************************************)
(* Model of vectra's dense polynomial engine, src/src/polynomial/mod.rs:   *)
(* Polynomial<T> { degree: usize, coefficients: Vec<T> } over integer      *)
(* coefficients, with usize kept as a UsizeBits-bit unsigned integer.      *)
(* An arithmetic overflow on usize has the two outcomes a Rust build can   *)
(* produce: a panic (overflow checks on, the debug profile) or a wrap      *)
(* modulo 2^UsizeBits (overflow checks off, the release profile).          *)
(***************************************************************************)
EXTENDS Integers, Sequences, FiniteSets, TLC

VARIABLES
    overflow_checks, \* build profile: TRUE = overflow checks on (debug)
    p,               \* the polynomial the program holds
    last,            \* the last operation: its name, arguments, operand and result
    panicked,        \* the program has panicked (it runs no further)
    q, r,            \* further operands of the ring-law evaluation
    law, lhs, rhs,   \* the ring law evaluated last and the outcome of its two sides
    z,               \* a polynomial over complex coefficients, for its renderer
    shown            \* the renderer run last and what it produced

vars == <<overflow_checks, p, last, panicked, q, r, law, lhs, rhs, z, shown>>

-----------------------------------------------------------------------------
(* Bounds *)

UsizeBits == 2
MaxLen == 2
RenderLen == 3

UsizeMax == 2^UsizeBits - 1
Usize == 0..UsizeMax
Wrap(n) == n % (2^UsizeBits)

\* coefficient values handed to from_coefficients / set_coefficient
Coeff == {-1, 0, 1}
\* coefficient values of the right-hand operands of +, - and *
OperandCoeff == {-1, 1}
\* coefficient values of the operands of the ring-law evaluation
RingCoeff == {-1, 2}

SeqsUpTo(S, n) == UNION {[1..k -> S] : k \in 0..n}

-----------------------------------------------------------------------------
(* Vec<T> and Option<T> *)

Zeros(n) == [i \in 1..n |-> 0]

\* Vec::resize(new_len, T::zero())
Resize(s, n) == IF n <= Len(s) THEN SubSeq(s, 1, n) ELSE s \o Zeros(n - Len(s))

None == [tag |-> "None", val |-> 0]
Some(x) == [tag |-> "Some", val |-> x]
\* an indexing self.coefficients[i] out of bounds
IndexPanic == [tag |-> "Panic", val |-> 0]

\* Option::unwrap_or_default, T::default() == 0 for the integer types
UnwrapOrDefault(o) == IF o.tag = "Some" THEN o.val ELSE 0

\* the outcome of an operation: the polynomial it leaves, and whether it panicked
Ok(poly) == [p |-> poly, panic |-> FALSE]
Panic(poly) == [p |-> poly, panic |-> TRUE]

-----------------------------------------------------------------------------
(* Construction and accessors *)

NewPolyNoSlot == [degree |-> 0, coefficients |-> <<>>]

\* Default::default / Polynomial::new
NewPoly == [degree |-> 0, coefficients |-> Zeros(1)]

FromCoefficientsOffByOne(s) ==
    IF s = <<>> THEN NewPoly ELSE [degree |-> Len(s), coefficients |-> s]

FromCoefficients(s) ==
    IF s = <<>>
    THEN NewPoly
    ELSE [degree |-> Len(s) - 1, coefficients |-> s]

GetCoefficient(self, d) ==
    IF d > self.degree
    THEN None
    ELSE IF d + 1 > Len(self.coefficients)
         THEN IndexPanic
         ELSE Some(self.coefficients[d + 1])

\* self.degree is assigned before degree + 1 is evaluated
SetDegree(self, d, oc) ==
    IF d > self.degree
    THEN IF d + 1 > UsizeMax /\ oc
         THEN Panic([self EXCEPT !.degree = d])
         ELSE Ok([degree |-> d,
                  coefficients |-> Resize(self.coefficients, Wrap(d + 1))])
    ELSE Ok(self)

SetCoefficient(self, d, c, oc) ==
    LET sd == SetDegree(self, d, oc) IN
    IF sd.panic
    THEN sd
    ELSE IF d + 1 > Len(sd.p.coefficients)
         THEN Panic(sd.p)
         ELSE Ok([sd.p EXCEPT !.coefficients[d + 1] = c])

-----------------------------------------------------------------------------
(* Ring arithmetic *)

RECURSIVE AddLoop(_, _, _, _, _, _)
\* for i in 0..=result.degree (the range is fixed when the loop starts: n)
AddLoop(result, self, other, i, n, oc) ==
    IF i > n
    THEN Ok(result)
    ELSE LET a == GetCoefficient(self, i)
             b == GetCoefficient(other, i)
         IN  IF a.tag = "Panic" \/ b.tag = "Panic"
             THEN Panic(result)
             ELSE LET c  == UnwrapOrDefault(a) + UnwrapOrDefault(b)
                      st == SetCoefficient(result, i, c, oc)
                  IN  IF st.panic THEN st
                      ELSE AddLoop(st.p, self, other, i + 1, n, oc)

Max(a, b) == IF a >= b THEN a ELSE b

Add(self, other, oc) ==
    LET sd == SetDegree(NewPoly, Max(self.degree, other.degree), oc) IN
    IF sd.panic THEN sd
    ELSE AddLoop(sd.p, self, other, 0, sd.p.degree, oc)

RECURSIVE SubLoop(_, _, _, _, _, _)
SubLoop(result, self, other, i, n, oc) ==
    IF i > n
    THEN Ok(result)
    ELSE LET a == GetCoefficient(self, i)
             b == GetCoefficient(other, i)
         IN  IF a.tag = "Panic" \/ b.tag = "Panic"
             THEN Panic(result)
             ELSE LET c  == UnwrapOrDefault(a) - UnwrapOrDefault(b)
                      st == SetCoefficient(result, i, c, oc)
                  IN  IF st.panic THEN st
                      ELSE SubLoop(st.p, self, other, i + 1, n, oc)

Sub(self, other, oc) ==
    LET sd == SetDegree(NewPoly, Max(self.degree, other.degree), oc) IN
    IF sd.panic THEN sd
    ELSE SubLoop(sd.p, self, other, 0, sd.p.degree, oc)

\* the inner loop's body with the accumulation dropped
MulStepNoAccumulate(result, self, other, i, j, oc) ==
    IF i + j > UsizeMax /\ oc
    THEN Panic(result)
    ELSE LET k  == Wrap(i + j)
             rc == GetCoefficient(result, k)
             a  == GetCoefficient(self, i)
             b  == GetCoefficient(other, j)
         IN  IF rc.tag = "Panic" \/ a.tag = "Panic" \/ b.tag = "Panic"
             THEN Panic(result)
             ELSE SetCoefficient(result, k,
                                 UnwrapOrDefault(a) * UnwrapOrDefault(b), oc)

\* the inner loop's body: i + j is a usize addition
MulStep(result, self, other, i, j, oc) ==
    IF i + j > UsizeMax /\ oc
    THEN Panic(result)
    ELSE LET k  == Wrap(i + j)
             rc == GetCoefficient(result, k)
             a  == GetCoefficient(self, i)
             b  == GetCoefficient(other, j)
         IN  IF rc.tag = "Panic" \/ a.tag = "Panic" \/ b.tag = "Panic"
             THEN Panic(result)
             ELSE SetCoefficient(result, k,
                                 UnwrapOrDefault(rc)
                                   + (UnwrapOrDefault(a) * UnwrapOrDefault(b)),
                                 oc)

RECURSIVE MulInner(_, _, _, _, _, _)
\* for j in 0..=other.degree
MulInner(result, self, other, i, j, oc) ==
    IF j > other.degree
    THEN Ok(result)
    ELSE LET st == MulStep(result, self, other, i, j, oc) IN
         IF st.panic THEN st
         ELSE MulInner(st.p, self, other, i, j + 1, oc)

RECURSIVE MulOuter(_, _, _, _, _)
\* for i in 0..=self.degree
MulOuter(result, self, other, i, oc) ==
    IF i > self.degree
    THEN Ok(result)
    ELSE LET st == MulInner(result, self, other, i, 0, oc) IN
         IF st.panic THEN st
         ELSE MulOuter(st.p, self, other, i + 1, oc)

\* self.degree + other.degree is a usize addition
Mul(self, other, oc) ==
    IF self.degree + other.degree > UsizeMax /\ oc
    THEN Panic(NewPoly)
    ELSE LET sd == SetDegree(NewPoly, Wrap(self.degree + other.degree), oc) IN
         IF sd.panic THEN sd
         ELSE MulOuter(sd.p, self, other, 0, oc)

-----------------------------------------------------------------------------
(* The program: one polynomial, constructed and then mutated and combined *)

NoSeq == <<>>

Last(op, pre, d, v, s, operand, out, ret) ==
    [op |-> op, pre |-> pre, d |-> d, v |-> v, s |-> s,
     operand |-> operand, out |-> out, ret |-> ret]

\* the sequences a caller hands to from_coefficients
CoeffSeqs == SeqsUpTo(Coeff, MaxLen)

\* the right-hand operands of +, - and *
Operands == {FromCoefficients(s) : s \in SeqsUpTo(OperandCoeff, MaxLen)}

InRange(poly) == \A i \in 1..Len(poly.coefficients) : poly.coefficients[i] \in Coeff

\* no call on record: the caller has taken the last call's result
Idle == Last("idle", NewPoly, 0, 0, NoSeq, NewPoly, NewPoly, None)

\* the program may make a call: it has not panicked and no call is on record
Ready == ~panicked /\ last = Idle

\* Polynomial::<Complex<T>>::new()
ZNew == [degree |-> 0, coefficients |-> <<[re |-> 0, im |-> 0]>>]

\* no renderer has run
NotShown == [kind |-> "none", text |-> <<>>, panic |-> FALSE]

RingIdle == UNCHANGED <<q, r, law, lhs, rhs, z, shown>>

Init ==
    /\ overflow_checks \in BOOLEAN
    /\ p = NewPoly
    /\ last = Idle
    /\ panicked = FALSE
    /\ q = NewPoly
    /\ r = NewPoly
    /\ law = "none"
    /\ lhs = Ok(NewPoly)
    /\ rhs = Ok(NewPoly)
    /\ z = ZNew
    /\ shown = NotShown

New ==
    /\ Ready
    /\ p' = NewPoly
    /\ last' = Last("new", p, 0, 0, NoSeq, NewPoly, NewPoly, None)
    /\ UNCHANGED <<overflow_checks, panicked>>
    /\ RingIdle

DoFromCoefficients ==
    /\ Ready
    /\ \E s \in CoeffSeqs :
        /\ p' = FromCoefficients(s)
        /\ last' = Last("from_coefficients", p, 0, 0, s, NewPoly, NewPoly, None)
    /\ UNCHANGED <<overflow_checks, panicked>>
    /\ RingIdle

DoGetCoefficient ==
    /\ Ready
    /\ \E d \in Usize :
        LET ret == GetCoefficient(p, d) IN
        /\ last' = Last("get_coefficient", p, d, 0, NoSeq, NewPoly, NewPoly, ret)
        /\ panicked' = (ret.tag = "Panic")
    /\ UNCHANGED <<overflow_checks, p>>
    /\ RingIdle

DoSetDegree ==
    /\ Ready
    /\ \E d \in Usize :
        LET st == SetDegree(p, d, overflow_checks) IN
        /\ p' = st.p
        /\ panicked' = st.panic
        /\ last' = Last("set_degree", p, d, 0, NoSeq, NewPoly, NewPoly, None)
    /\ UNCHANGED overflow_checks
    /\ RingIdle

DoSetCoefficient ==
    /\ Ready
    /\ \E d \in Usize, v \in Coeff :
        LET st == SetCoefficient(p, d, v, overflow_checks) IN
        /\ p' = st.p
        /\ panicked' = st.panic
        /\ last' = Last("set_coefficient", p, d, v, NoSeq, NewPoly, NewPoly, None)
    /\ UNCHANGED overflow_checks
    /\ RingIdle

\* p op operand; the program goes on with the result when its coefficients are
\* still in Coeff, and with its clone of the left operand otherwise
Binary(op, operand, st) ==
    /\ last' = Last(op, p, 0, 0, NoSeq, operand, st.p, None)
    /\ panicked' = st.panic
    /\ p' = IF ~st.panic /\ InRange(st.p) THEN st.p ELSE p
    /\ UNCHANGED overflow_checks
    /\ RingIdle

DoAdd ==
    /\ Ready
    /\ \E operand \in Operands : Binary("add", operand, Add(p, operand, overflow_checks))

DoSub ==
    /\ Ready
    /\ \E operand \in Operands : Binary("sub", operand, Sub(p, operand, overflow_checks))

DoMul ==
    /\ Ready
    /\ \E operand \in Operands : Binary("mul", operand, Mul(p, operand, overflow_checks))

\* the call returns: the caller takes its result and the record is dropped
Return ==
    /\ ~panicked
    /\ last # Idle
    /\ last' = Idle
    /\ UNCHANGED <<overflow_checks, p, panicked>>
    /\ RingIdle

Next ==
    \/ New
    \/ DoFromCoefficients
    \/ DoGetCoefficient
    \/ DoSetDegree
    \/ DoSetCoefficient
    \/ DoAdd
    \/ DoSub
    \/ DoMul
    \/ Return

Spec == Init /\ [][Next]_vars

-----------------------------------------------------------------------------
(* Ring laws: +, * evaluated both ways round on three operands.  Each operand *)
(* is built by from_coefficients; one of them then has its degree raised by   *)
(* set_degree.                                                                *)

RingOperands == {FromCoefficients(s) : s \in SeqsUpTo(RingCoeff, MaxLen)}

\* the degrees the one operand is raised to: within the constructed lengths, or
\* to the top of the usize range
RingDegrees == {d \in Usize : d < MaxLen \/ d >= UsizeMax - 1}

\* what the caller sees of an outcome: the value, or that the call panicked
Observed(st) == IF st.panic THEN "panicked" ELSE st.p

\* st + other / other + st, st the outcome of an earlier operation
AddAfter(st, other, oc) == IF st.panic THEN st ELSE Add(st.p, other, oc)
AddBefore(self, st, oc) == IF st.panic THEN st ELSE Add(self, st.p, oc)
MulAfter(st, other, oc) == IF st.panic THEN st ELSE Mul(st.p, other, oc)
MulBefore(self, st, oc) == IF st.panic THEN st ELSE Mul(self, st.p, oc)

RingInit ==
    /\ overflow_checks \in BOOLEAN
    /\ last = Idle
    /\ panicked = FALSE
    /\ law = "none"
    /\ lhs = Ok(NewPoly)
    /\ rhs = Ok(NewPoly)
    /\ z = ZNew
    /\ shown = NotShown
    /\ \E a \in RingOperands, b \in RingOperands, c \in RingOperands,
          d \in RingDegrees, k \in 1..3 :
        LET st == SetDegree(a, d, overflow_checks) IN
        /\ ~st.panic
        /\ p = IF k = 1 THEN st.p ELSE b
        /\ q = IF k = 2 THEN st.p ELSE IF k = 1 THEN b ELSE c
        /\ r = IF k = 3 THEN st.p ELSE c

Evaluate(name, left, right) ==
    /\ law = "none"
    /\ law' = name
    /\ lhs' = left
    /\ rhs' = right
    /\ UNCHANGED <<overflow_checks, p, last, panicked, q, r, z, shown>>

AddCommutes ==
    Evaluate("add_comm", Add(p, q, overflow_checks), Add(q, p, overflow_checks))

AddAssociates ==
    Evaluate("add_assoc",
             AddAfter(Add(p, q, overflow_checks), r, overflow_checks),
             AddBefore(p, Add(q, r, overflow_checks), overflow_checks))

MulCommutes ==
    Evaluate("mul_comm", Mul(p, q, overflow_checks), Mul(q, p, overflow_checks))

MulAssociates ==
    Evaluate("mul_assoc",
             MulAfter(Mul(p, q, overflow_checks), r, overflow_checks),
             MulBefore(p, Mul(q, r, overflow_checks), overflow_checks))

RingNext ==
    \/ AddCommutes
    \/ AddAssociates
    \/ MulCommutes
    \/ MulAssociates

SpecRing == RingInit /\ [][RingNext]_vars

-----------------------------------------------------------------------------
(* Rendering.  The coefficient type is i8, CoefBits bits wide; text is a      *)
(* sequence of characters.                                                    *)

CoefBits == 8
TMin == -(2^(CoefBits - 1))
TMax == 2^(CoefBits - 1) - 1
InT(n) == n >= TMin /\ n <= TMax
WrapT(n) == ((n - TMin) % (2^CoefBits)) + TMin

\* the value of an arithmetic operation of T: n when it fits, else a panic
\* with overflow checks and the wrapped value without
Arith(n, oc) ==
    IF InT(n) THEN [val |-> n, panic |-> FALSE]
    ELSE IF oc THEN [val |-> 0, panic |-> TRUE]
    ELSE [val |-> WrapT(n), panic |-> FALSE]

\* -coefficient
NegT(c, oc) == Arith(-c, oc)

\* Signed::abs
AbsT(c, oc) == IF c < 0 THEN NegT(c, oc) ELSE [val |-> c, panic |-> FALSE]

\* Complex::norm_sqr: re * re + im * im in T
NormSqr(c, oc) ==
    LET rr == Arith(c.re * c.re, oc)
        ii == Arith(c.im * c.im, oc)
    IN  IF rr.panic \/ ii.panic
        THEN [val |-> 0, panic |-> TRUE]
        ELSE Arith(rr.val + ii.val, oc)

Digit(n) == <<"0", "1", "2", "3", "4", "5", "6", "7", "8", "9">>[n + 1]

RECURSIVE Digits(_)
\* the decimal text of a natural number
Digits(n) == IF n < 10 THEN <<Digit(n)>> ELSE Digits(n \div 10) \o <<Digit(n % 10)>>

\* format!("{}", n) of a signed integer
FmtInt(n) == IF n < 0 THEN <<"-">> \o Digits(-n) ELSE Digits(n)

Rendered(text) == [text |-> text, panic |-> FALSE]
RenderPanic == [text |-> <<>>, panic |-> TRUE]

RECURSIVE FmtLoop(_, _, _, _, _)
\* Display for Polynomial<T>: for (degree, coefficient) in
\* self.coefficients.iter().enumerate().rev(); idx is degree + 1
FmtLoop(coefficients, idx, formatted_string, is_first_term, oc) ==
    IF idx = 0
    THEN Rendered(formatted_string)
    ELSE LET c      == coefficients[idx]
             degree == idx - 1
         IN  IF c = 0
             THEN FmtLoop(coefficients, idx - 1, formatted_string, is_first_term, oc)
             ELSE LET is_neg == c < 0
                      mag    == IF is_neg THEN NegT(c, oc)
                                ELSE [val |-> c, panic |-> FALSE]
                      sign   == IF is_neg THEN <<"-", " ">> ELSE <<"+", " ">>
                      lead   == IF is_first_term
                                THEN (IF is_neg THEN sign ELSE <<>>)
                                ELSE <<" ">> \o sign
                      formatted ==
                          IF degree = 0 THEN FmtInt(mag.val)
                          ELSE IF degree = 1 THEN FmtInt(mag.val) \o <<"x">>
                          ELSE FmtInt(mag.val) \o <<"x", "^">> \o Digits(degree)
                  IN  IF mag.panic
                      THEN RenderPanic
                      ELSE FmtLoop(coefficients, idx - 1,
                                   formatted_string \o lead \o formatted, FALSE, oc)

Display(poly, oc) == FmtLoop(poly.coefficients, Len(poly.coefficients), <<>>, TRUE, oc)

\* the text between the brackets of one complex term
ComplexTerm(c, oc) ==
    LET a      == AbsT(c.im, oc)
        re_txt == IF c.re # 0 THEN FmtInt(c.re) ELSE <<>>
        im_sgn == IF c.im > 0
                  THEN (IF c.re # 0 THEN <<"+">> ELSE <<>>)
                  ELSE <<"-">>
    IN  IF c.im = 0 THEN Rendered(re_txt)
        ELSE IF a.panic THEN RenderPanic
        ELSE Rendered(re_txt \o im_sgn \o FmtInt(a.val) \o <<"i">>)

RECURSIVE ComplexFmtLoop(_, _, _, _)
\* Display for Polynomial<NumComplex<T>>
ComplexFmtLoop(coefficients, idx, formatted_string, oc) ==
    IF idx = 0
    THEN Rendered(formatted_string)
    ELSE LET c      == coefficients[idx]
             degree == idx - 1
             norm   == NormSqr(c, oc)
         IN  IF norm.panic THEN RenderPanic
             ELSE IF norm.val = 0
             THEN ComplexFmtLoop(coefficients, idx - 1, formatted_string, oc)
             ELSE LET result == ComplexTerm(c, oc) IN
                  IF result.panic THEN RenderPanic
                  ELSE ComplexFmtLoop(coefficients, idx - 1,
                           formatted_string \o <<"+", " ", "(">> \o result.text
                               \o <<")", "x", "^">> \o Digits(degree) \o <<" ">>,
                           oc)

DisplayComplex(poly, oc) ==
    ComplexFmtLoop(poly.coefficients, Len(poly.coefficients), <<>>, oc)

\* coefficient values of the polynomials rendered
RenderCoeff == {TMin, -12, -1, 0, 3, TMax}
RenderRe == {-3, 0, 16}
RenderIm == {TMin, -3, 0, 2}
ComplexCoeff == {[re |-> a, im |-> b] : a \in RenderRe, b \in RenderIm}

\* the polynomial to render: built by from_coefficients, its degree then raised
\* by set_degree (real coefficients), or built by from_coefficients (complex)
RenderInit ==
    /\ overflow_checks \in BOOLEAN
    /\ last = Idle
    /\ panicked = FALSE
    /\ q = NewPoly
    /\ r = NewPoly
    /\ law = "none"
    /\ lhs = Ok(NewPoly)
    /\ rhs = Ok(NewPoly)
    /\ shown = NotShown
    /\ \/ /\ z = ZNew
          /\ \E s \in SeqsUpTo(RenderCoeff, RenderLen), d \in Usize :
                LET st == SetDegree(FromCoefficients(s), d, overflow_checks) IN
                /\ ~st.panic
                /\ p = st.p
       \/ /\ p = NewPoly
          /\ \E s \in SeqsUpTo(ComplexCoeff, RenderLen) :
                z = IF s = <<>> THEN ZNew ELSE FromCoefficients(s)

Show(kind, out) ==
    /\ shown = NotShown
    /\ shown' = [kind |-> kind, text |-> out.text, panic |-> out.panic]
    /\ UNCHANGED <<overflow_checks, p, last, panicked, q, r, law, lhs, rhs, z>>

DoDisplay == Show("real", Display(p, overflow_checks))

DoDisplayComplex == Show("complex", DisplayComplex(z, overflow_checks))

RenderNext ==
    \/ DoDisplay
    \/ DoDisplayComplex

SpecRender == RenderInit /\ [][RenderNext]_vars

-----------------------------------------------------------------------------
(* Properties *)

ZeroPoly == [degree |-> 0, coefficients |-> <<0>>]

\* a polynomial with at least one coefficient, all of them zero
AllZero(poly) ==
    /\ Len(poly.coefficients) >= 1
    /\ \A i \in 1..Len(poly.coefficients) : poly.coefficients[i] = 0

IsBinary == last.op \in {"add", "sub", "mul"}

\* the coefficient at exponent i, zero above the operand's own degree
CoefOrZero(poly, i) ==
    IF i <= poly.degree /\ i + 1 <= Len(poly.coefficients)
    THEN poly.coefficients[i + 1]
    ELSE 0

RECURSIVE ConvSum(_, _, _, _)
\* sum of a_i * b_(k-i) over i in lo..a.degree with 0 <= k - i <= b.degree
ConvSum(a, b, k, lo) ==
    IF lo > a.degree
    THEN 0
    ELSE (IF k - lo >= 0 /\ k - lo <= b.degree
          THEN CoefOrZero(a, lo) * CoefOrZero(b, k - lo)
          ELSE 0) + ConvSum(a, b, k, lo + 1)

\* C1: every polynomial the program reaches (held, or returned by +, -, *) has
\* exactly degree + 1 coefficients.
C1_LengthIsDegreePlusOne ==
    ~panicked =>
        /\ Len(p.coefficients) = p.degree + 1
        /\ IsBinary => Len(last.out.coefficients) = last.out.degree + 1

\* C2 as stated: every polynomial whose coefficients are all zero is in the
\* canonical zero form, degree 0 and coefficients [0].
C2_AllZeroIsCanonical ==
    ~panicked =>
        /\ AllZero(p) => p = ZeroPoly
        /\ (IsBinary /\ AllZero(last.out)) => last.out = ZeroPoly

\* C2 amended: new() and from_coefficients of the empty sequence give the
\* canonical zero form; from_coefficients of a non-empty all-zero sequence of
\* length n keeps degree n - 1 and its n zero coefficients.
C2_ConstructedZero ==
    /\ last.op = "new" => p = ZeroPoly
    /\ (last.op = "from_coefficients" /\ last.s = <<>>) => p = ZeroPoly
    /\ (last.op = "from_coefficients" /\ last.s # <<>>
            /\ \A i \in 1..Len(last.s) : last.s[i] = 0)
         => (p.degree = Len(last.s) - 1 /\ p.coefficients = Zeros(Len(last.s)))

C2_Witness ==
    /\ last.op = "from_coefficients"
    /\ last.s = <<0, 0>>
    /\ p.degree = 1

\* C3: from_coefficients(s) keeps s and has degree len(s) - 1 when s is not
\* empty, and equals new() (degree 0, coefficients [0]) when s is empty.
C3_FromCoefficients ==
    last.op = "from_coefficients" =>
        IF last.s # <<>>
        THEN p.coefficients = last.s /\ p.degree = Len(last.s) - 1
        ELSE p.degree = 0 /\ p.coefficients = <<0>> /\ p = NewPoly

C3_Witness ==
    /\ last.op = "from_coefficients"
    /\ Len(last.s) >= 2
    /\ last.s[1] # last.s[2]

\* C4: p + q (p - q) completes with degree max(degree p, degree q) and the
\* coefficient p_i + q_i (p_i - q_i) at every exponent i, an absent coefficient
\* counting as zero.
C4_AddSubPointwise ==
    last.op \in {"add", "sub"} =>
        /\ ~panicked
        /\ last.out.degree = Max(last.pre.degree, last.operand.degree)
        /\ Len(last.out.coefficients) = last.out.degree + 1
        /\ \A i \in 0..last.out.degree :
             last.out.coefficients[i + 1] =
                IF last.op = "add"
                THEN CoefOrZero(last.pre, i) + CoefOrZero(last.operand, i)
                ELSE CoefOrZero(last.pre, i) - CoefOrZero(last.operand, i)

\* C5: p * q completes with degree degree p + degree q and, at every exponent
\* k, the sum of p_i * q_j over the pairs with i + j = k.
C5_MulConvolution ==
    last.op = "mul" =>
        /\ ~panicked
        /\ last.out.degree = last.pre.degree + last.operand.degree
        /\ Len(last.out.coefficients) = last.out.degree + 1
        /\ \A k \in 0..last.out.degree :
             last.out.coefficients[k + 1] = ConvSum(last.pre, last.operand, k, 0)

C7_SetThenGet ==
    last.op = "set_coefficient" =>
        (~panicked /\ GetCoefficient(p, last.d) = Some(last.v))

\* C8: set_degree(d) on degree n is a no-op when d <= n; when d > n the degree
\* becomes d, the coefficients 0..n are kept and n+1..d are zero.  The degree
\* never decreases over set_degree and set_coefficient.
C8_SetDegree ==
    /\ last.op = "set_degree" =>
        /\ ~panicked
        /\ last.d <= last.pre.degree => p = last.pre
        /\ last.d > last.pre.degree =>
            /\ p.degree = last.d
            /\ p.coefficients
                 = last.pre.coefficients \o Zeros(last.d - last.pre.degree)
    /\ last.op \in {"set_degree", "set_coefficient"} =>
        p.degree >= last.pre.degree

\* C9: get_coefficient(d) never fails and never modifies p; it returns None
\* exactly when d > degree, and Some(coefficients[d]) otherwise.
C9_GetCoefficient ==
    last.op = "get_coefficient" =>
        /\ ~panicked
        /\ p = last.pre
        /\ (last.ret = None) <=> (last.d > last.pre.degree)
        /\ last.d <= last.pre.degree =>
             last.ret = Some(last.pre.coefficients[last.d + 1])

\* C10: no operation panics, whatever usize argument or operands it is given.
C10_NoPanic == ~panicked

\* C13: set_coefficient(d, v) on degree n completes and changes only the slot
\* at d: the degree becomes max(n, d), the coefficient at d is v, every
\* coefficient at e <= n, e # d is kept, and every one at n < e < d is zero.
C13_SetCoefficientFrame ==
    last.op = "set_coefficient" =>
        /\ ~panicked
        /\ p.degree = Max(last.pre.degree, last.d)
        /\ Len(p.coefficients) = p.degree + 1
        /\ p.coefficients[last.d + 1] = last.v
        /\ \A e \in 0..p.degree :
             /\ (e <= last.pre.degree /\ e # last.d)
                  => p.coefficients[e + 1] = CoefOrZero(last.pre, e)
             /\ (e > last.pre.degree /\ e < last.d) => p.coefficients[e + 1] = 0

Magnitude(c) == IF c < 0 THEN -c ELSE c

\* "", "x" or "x^k"
Suffix(k) ==
    IF k = 0 THEN <<>> ELSE IF k = 1 THEN <<"x">> ELSE <<"x", "^">> \o Digits(k)

\* no term of a higher exponent is emitted before the one at k
IsFirstEmitted(poly, k) == \A e \in (k + 1)..poly.degree : CoefOrZero(poly, e) = 0

RealTerm(poly, k) ==
    LET c == CoefOrZero(poly, k) IN
    IF c = 0 THEN <<>>
    ELSE (IF IsFirstEmitted(poly, k)
          THEN (IF c < 0 THEN <<"-", " ">> ELSE <<>>)
          ELSE (IF c < 0 THEN <<" ", "-", " ">> ELSE <<" ", "+", " ">>))
         \o Digits(Magnitude(c)) \o Suffix(k)

RECURSIVE RealText(_, _)
\* the terms at exponents k down to 0, concatenated
RealText(poly, k) == IF k < 0 THEN <<>> ELSE RealTerm(poly, k) \o RealText(poly, k - 1)

\* C11: the rendering of a polynomial over signed integers is the concatenation,
\* from exponent degree down to 0 with zero coefficients skipped, of prefix,
\* magnitude and suffix; it never begins with "+" and is empty when every
\* coefficient is zero.
C11_DisplayReal ==
    shown.kind = "real" =>
        /\ ~shown.panic
        /\ shown.text = RealText(p, p.degree)
        /\ shown.text # <<>> => shown.text[1] # "+"
        /\ AllZero(p) => shown.text = <<>>

\* the part of the complex coefficient at exponent k, zero when absent
PartOrZero(poly, k, part) ==
    IF k <= poly.degree /\ k + 1 <= Len(poly.coefficients)
    THEN (IF part = "re" THEN poly.coefficients[k + 1].re
          ELSE poly.coefficients[k + 1].im)
    ELSE 0

ComplexTermText(poly, k) ==
    LET re == PartOrZero(poly, k, "re")
        im == PartOrZero(poly, k, "im")
    IN  IF re = 0 /\ im = 0 THEN <<>>
        ELSE <<"+", " ", "(">>
             \o (IF re # 0 THEN FmtInt(re) ELSE <<>>)
             \o (IF im = 0 THEN <<>>
                 ELSE (IF im > 0 /\ re # 0 THEN <<"+">>
                       ELSE IF im < 0 THEN <<"-">> ELSE <<>>)
                      \o Digits(Magnitude(im)) \o <<"i">>)
             \o <<")", "x", "^">> \o Digits(k) \o <<" ">>

RECURSIVE ComplexText(_, _)
ComplexText(poly, k) ==
    IF k < 0 THEN <<>> ELSE ComplexTermText(poly, k) \o ComplexText(poly, k - 1)

\* C12: the rendering of a polynomial over complex coefficients is the
\* concatenation, from exponent degree down to 0 skipping the coefficients whose
\* real and imaginary parts are both zero, of "+ (" text ")x^" exponent " ",
\* text being the real part if non-zero, then for a non-zero imaginary part
\* "+" (positive, real part non-zero) or "-" (negative), its absolute value
\* and "i".
C12_DisplayComplex ==
    shown.kind = "complex" =>
        /\ ~shown.panic
        /\ shown.text = ComplexText(z, z.degree)

====
